---------------------------- MODULE Spec2Model ----------------------------
(***************************************************************************)
(* SaggersRule media stack: the V2 media API (media-api/src/server.js and  *)
(* media-api/src/routes/upload.js, second generation of the router), its   *)
(* upload middleware, the static file server in front of the upload        *)
(* directory, and the deployment script (scripts/deploy.sh).               *)
(*                                                                         *)
(* Strings whose characters matter (file names, environment values) are    *)
(* sequences of one-character strings, so that path.extname, toLowerCase,  *)
(* split, trim and parseInt are computed the way the JavaScript computes   *)
(* them.                                                                   *)
(***************************************************************************)
EXTENDS Integers, Sequences, FiniteSets, TLC

VARIABLES
    env,        \* process.env of the media API (fixed when the process starts)
    disk,       \* the upload directory: stored file name -> what was written
    hits,       \* the rate limiter's hit count of the client in this window
    nreq,       \* requests the client has sent
    inflight,   \* upload requests the multipart middleware is still reading
    last,       \* the response sent most recently, with the request it answers
    reported,   \* files reported in 200 responses: url and uploaded content
    fFile,      \* file-filter harness: the file handed to fileFilter
    fVerdict,   \* file-filter harness: "pending", "accepted" or "rejected"
    dArgs,      \* deploy.sh: the command line ("$@" of the script)
    dPc,        \* deploy.sh: the step the script is at
    dWorld,     \* deploy.sh: what the script finds on the host
    dBackup,    \* deploy.sh: a backup archive was written
    dStopped,   \* deploy.sh: the script has taken the services down
    dRetry,     \* deploy.sh: RETRY_COUNT of health_check
    fu,         \* frontend: state of the FileUpload component
    page,       \* frontend: state of UploadPage (recentUploads)
    store,      \* frontend: the browser's localStorage
    gal,        \* frontend: state of GalleryPage
    post,       \* frontend: state of CreatePostModal
    guard,      \* frontend: AuthProvider state and what ProtectedRoute renders
    sess,       \* frontend: state of SessionHandler
    onb,        \* frontend: state of OnboardingPage
    vault,      \* frontend: state of DocumentVault
    legacy,     \* the legacy media-api server (media-api/server.js)
    info        \* GET /upload/info: the response sent

vars == <<env, disk, hits, nreq, inflight, last, reported,
          fFile, fVerdict, dArgs, dPc, dWorld, dBackup, dStopped,
          dRetry, fu, page, store, gal, post, guard, sess, onb, vault,
          legacy, info>>

apiVars == <<disk, hits, nreq, inflight, last, reported>>
filterVars == <<fFile, fVerdict>>
deployVars == <<dArgs, dPc, dWorld, dBackup, dStopped, dRetry>>
uiVars == <<fu, page, store, gal, post, guard, sess, onb, vault, legacy, info>>

-----------------------------------------------------------------------------
(* JavaScript string primitives *)

UpperChars == <<"A","B","C","D","E","F","G","H","I","J","K","L","M",
                "N","O","P","Q","R","S","T","U","V","W","X","Y","Z">>
LowerChars == <<"a","b","c","d","e","f","g","h","i","j","k","l","m",
                "n","o","p","q","r","s","t","u","v","w","x","y","z">>

LowerTable ==
    [c \in {UpperChars[i] : i \in 1..Len(UpperChars)} |->
        LowerChars[CHOOSE i \in 1..Len(UpperChars) : UpperChars[i] = c]]
UpperTable ==
    [c \in {LowerChars[i] : i \in 1..Len(LowerChars)} |->
        UpperChars[CHOOSE i \in 1..Len(LowerChars) : LowerChars[i] = c]]

\* One character of String.prototype.toLowerCase.
LowerChar(c) == IF c \in DOMAIN LowerTable THEN LowerTable[c] ELSE c

\* String.prototype.toLowerCase
toLowerCase(s) == [i \in 1..Len(s) |-> LowerChar(s[i])]

\* One character of String.prototype.toUpperCase (used to enumerate casings).
UpperChar(c) == IF c \in DOMAIN UpperTable THEN UpperTable[c] ELSE c

\* Index of the last "." of s, 0 when there is none.
RECURSIVE LastDotFrom(_, _)
LastDotFrom(s, i) == IF i = 0 \/ s[i] = "." THEN i ELSE LastDotFrom(s, i - 1)
LastDot(s) == LastDotFrom(s, Len(s))

\* path.extname of a name without directory separators (the multipart parser
\* hands over the base name): from the last "." to the end; empty when there
\* is no ".", when the only "." is the first character, or for "..".
extname(s) ==
    LET d == LastDot(s)
    IN  IF d = 0 \/ d = 1 \/ s = <<".", ".">> THEN <<>> ELSE SubSeq(s, d, Len(s))

\* String.prototype.slice(1) / substring(1)
slice1(s) == SubSeq(s, 2, Len(s))

IsSpace(c) == c \in {" ", "\t"}

RECURSIVE trimStart(_)
trimStart(s) == IF s # <<>> /\ IsSpace(Head(s)) THEN trimStart(Tail(s)) ELSE s

RECURSIVE trimEnd(_)
trimEnd(s) ==
    IF s # <<>> /\ IsSpace(s[Len(s)]) THEN trimEnd(SubSeq(s, 1, Len(s) - 1)) ELSE s

\* String.prototype.trim
trim(s) == trimEnd(trimStart(s))

\* The pieces of s from position i on; cur is the piece being read, acc the
\* pieces read so far.
RECURSIVE splitFrom(_, _, _, _)
splitFrom(s, i, cur, acc) ==
    IF i > Len(s) THEN Append(acc, cur)
    ELSE IF s[i] = "," THEN splitFrom(s, i + 1, <<>>, Append(acc, cur))
    ELSE splitFrom(s, i + 1, Append(cur, s[i]), acc)

\* String.prototype.split(","): the pieces between the commas, empty pieces kept.
split(s) == splitFrom(s, 1, <<>>, <<>>)

\* Array.prototype.includes
includes(list, x) == \E i \in 1..Len(list) : list[i] = x

Digits == <<"0","1","2","3","4","5","6","7","8","9">>
DigitTable == [c \in {Digits[i] : i \in 1..10} |-> (CHOOSE i \in 1..10 : Digits[i] = c) - 1]
IsDigit(c) == c \in DOMAIN DigitTable
DigitVal(c) == DigitTable[c]

RECURSIVE DigitRun(_, _)
DigitRun(s, acc) ==
    IF s # <<>> /\ IsDigit(Head(s)) THEN DigitRun(Tail(s), acc * 10 + DigitVal(Head(s)))
    ELSE acc

\* parseInt of a string (of an environment value): leading white space is
\* skipped, then a sign, the longest run of decimal digits is read, NaN when
\* there is none (or when the variable is unset).
parseInt(e) ==
    LET t == trimStart(e.val)
        signed == t # <<>> /\ Head(t) \in {"+", "-"}
        s == IF signed THEN Tail(t) ELSE t
    IN  IF ~e.set \/ s = <<>> \/ ~IsDigit(Head(s))
        THEN [nan |-> TRUE, val |-> 0]
        ELSE [nan |-> FALSE,
              val |-> IF signed /\ Head(t) = "-" THEN 0 - DigitRun(s, 0) ELSE DigitRun(s, 0)]

-----------------------------------------------------------------------------
(* process.env *)

Unset == [set |-> FALSE, val |-> <<>>]
Value(s) == [set |-> TRUE, val |-> s]

\* 'jpg,jpeg,png,gif,webp,mp4,mov,avi'
DefaultExtensions ==
    <<"j","p","g",",","j","p","e","g",",","p","n","g",",","g","i","f",",",
      "w","e","b","p",",","m","p","4",",","m","o","v",",","a","v","i">>

\* 104857600, the default of limits.fileSize
DefaultMaxFileSize == 104857600

\* process.env.X || fallback: an unset or empty variable gives the fallback.
OrDefault(e, fallback) == IF e.set /\ e.val # <<>> THEN e.val ELSE fallback

\* The environment of a container started without settings.
EnvDefault == [ALLOWED_EXTENSIONS |-> Unset, MAX_FILE_SIZE |-> Unset, NODE_ENV |-> "production"]

\* Settings of the environment the API is started with.
EnvCustom ==
    [ALLOWED_EXTENSIONS |-> Value(<<" ","J","P","G",",","p","n","g"," ",",","m","p","4">>),
     MAX_FILE_SIZE |-> Value(<<"4","0","9","6">>),
     NODE_ENV |-> "development"]

ApiEnvs == {EnvDefault, EnvCustom}

\* Settings of ALLOWED_EXTENSIONS: unset, empty, spaced and upper-case
\* entries, a trailing comma.
FilterEnvs ==
    { [EnvDefault EXCEPT !.ALLOWED_EXTENSIONS = v] :
        v \in { Unset,
                Value(<<>>),
                Value(<<" ","J","P","G"," ",",","M","p","4">>),      \* " JPG ,Mp4"
                Value(<<"j","p","g",",","p","d","f",",">>) } }       \* "jpg,pdf,"

-----------------------------------------------------------------------------
(* upload.js (V2): fileFilter and the multer limits *)

\* allowedExtensions of fileFilter: the list split at commas, each entry
\* trimmed and lower-cased.
allowedExtensionsOf(v) ==
    LET raw == split(OrDefault(v, DefaultExtensions))
    IN  [i \in 1..Len(raw) |-> toLowerCase(trim(raw[i]))]

\* Settings of MAX_FILE_SIZE and ALLOWED_EXTENSIONS: missing, empty, zero,
\* non-numeric and partly numeric sizes; empty, spaced, upper-case and
\* trailing-comma lists.
InfoEnvs ==
    { [EnvDefault EXCEPT !.MAX_FILE_SIZE = size, !.ALLOWED_EXTENSIONS = list] :
        size \in { Unset, Value(<<>>), Value(<<"0">>), Value(<<"a","b","c">>),
                   Value(<<"4","0","9","6">>), Value(<<"1","0","M","B">>),
                   Value(<<" ","4","2">>) },
        list \in { Unset, Value(<<>>),
                   Value(<<" ","J","P","G"," ",",","M","p","4">>),
                   Value(<<"j","p","g",",","p","d","f",",">>),
                   Value(<<"j","p","g",",","p","n","g">>),
                   Value(<<"j","p","g",","," ","p","n","g">>),
                   Value(<<"J","P","G">>),
                   Value(<<"m","p","4">>) } }

\* The list under each setting of ALLOWED_EXTENSIONS the model uses. The
\* variable does not change while the server runs, so the list fileFilter
\* computes on every call is the same each time.
AllowedLists ==
    [v \in {e.ALLOWED_EXTENSIONS : e \in ApiEnvs \cup FilterEnvs \cup InfoEnvs} |->
        allowedExtensionsOf(v)]

allowedExtensions(e) == AllowedLists[e.ALLOWED_EXTENSIONS]

\* fileExtension of fileFilter
fileExtension(file) == slice1(toLowerCase(extname(file.originalname)))

\* fileFilter: TRUE for cb(null, true), FALSE for cb(error, false) with
\* error.code = 'INVALID_FILE_TYPE'.
fileFilter(e, file) == includes(allowedExtensions(e), fileExtension(file))

\* parseInt(process.env.MAX_FILE_SIZE) || 104857600
fileSizeOf(v) ==
    LET n == parseInt(v)
    IN  IF n.nan \/ n.val = 0 THEN DefaultMaxFileSize ELSE n.val

\* limits.fileSize under each setting of MAX_FILE_SIZE the model uses: the
\* limit is computed once, when the router module is loaded.
FileSizeLimits ==
    [v \in {e.MAX_FILE_SIZE : e \in ApiEnvs \cup FilterEnvs \cup InfoEnvs} |-> fileSizeOf(v)]

\* limits.fileSize
fileSizeLimit(e) == FileSizeLimits[e.MAX_FILE_SIZE]

\* Mutant: a middleware whose limit is never applied.
TooLargeNever(e, size) == {FALSE}

\* The size check of the multipart parser under limits.fileSize: whether a
\* file of `size` bytes is cut and reported as too large. A file with more
\* bytes than the limit is, a file with fewer is not. For a file of exactly
\* the limit the releases of the parser differ (one cuts when the count
\* exceeds the limit, a later one when it reaches it) and the repository
\* pins no release: both outcomes are possible.
TooLarge(e, size) ==
    IF size > fileSizeLimit(e) THEN {TRUE}
    ELSE IF size = fileSizeLimit(e) THEN {TRUE, FALSE}
    ELSE {FALSE}


-----------------------------------------------------------------------------
(* Values the variables hold while the component they belong to is not the
   one under study *)

NoResponse ==
    [rid |-> 0, req |-> [route |-> "none", parts |-> <<>>], status |-> 0,
     json |-> FALSE, body |-> [text |-> ""]]
NoFile == [originalname |-> <<>>, mimetype |-> ""]

ApiIdle ==
    /\ disk = [n \in {} |-> 0]
    /\ hits = 0
    /\ nreq = 0
    /\ inflight = {}
    /\ last = NoResponse
    /\ reported = {}

FilterIdle == fFile = NoFile /\ fVerdict = "off"

\* A component that is not mounted, a server that is not started.
Off == [pc |-> "off"]

UiIdle ==
    /\ fu = Off
    /\ page = Off
    /\ store = Off
    /\ gal = Off
    /\ post = Off
    /\ guard = Off
    /\ sess = Off
    /\ onb = Off
    /\ vault = Off
    /\ legacy = Off
    /\ info = Off

DeployIdle ==
    /\ dArgs = <<>>
    /\ dPc = "off"
    /\ dWorld = [docker |-> TRUE, composeFile |-> TRUE, envFile |-> TRUE,
                 envExample |-> TRUE, running |-> FALSE]
    /\ dBackup = FALSE
    /\ dStopped = FALSE
    /\ dRetry = 0

-----------------------------------------------------------------------------
(* The file filter on its own: fileFilter applied to one file under one
   setting of ALLOWED_EXTENSIONS *)

\* Every letter-casing of a name.
RECURSIVE Casings(_)
Casings(s) ==
    IF s = <<>> THEN {<<>>}
    ELSE {<<c>> \o t : c \in {LowerChar(Head(s)), UpperChar(Head(s))},
                       t \in Casings(Tail(s))}

FilterBaseNames ==
    { <<"a",".","j","p","g">>,            \* a.jpg
      <<"b",".","m","p","4">>,            \* b.mp4
      <<"x",".","p","d","f">>,            \* x.pdf
      <<"a",".","g","i","f",".","x">>,    \* a.gif.x
      <<"j","p","g">>,                    \* jpg
      <<".","j","p","g">>,                \* .jpg
      <<"a",".">>,                        \* a.
      <<"a">>,                            \* a
      <<".",".">> }                       \* ..

FilterNames == UNION {Casings(n) : n \in FilterBaseNames}

FilterMimes == {"image/jpeg", "application/pdf", "text/plain"}

InitFilter ==
    /\ env \in FilterEnvs
    /\ fFile \in [originalname : FilterNames, mimetype : FilterMimes]
    /\ fVerdict = "pending"
    /\ ApiIdle
    /\ DeployIdle
    /\ UiIdle

\* multer hands the file to fileFilter, which answers through its callback.
ApplyFileFilter ==
    /\ fVerdict = "pending"
    /\ fVerdict' = IF fileFilter(env, fFile) THEN "accepted" ELSE "rejected"
    /\ UNCHANGED <<env, fFile, apiVars, deployVars, uiVars>>

NextFilter == ApplyFileFilter

SpecFilter == InitFilter /\ [][NextFilter]_vars


-----------------------------------------------------------------------------
(* The media API (server.js) and its upload router (routes/upload.js, V2) *)

\* Requests a client sends before the model stops it.
MaxRequests == 2

\* max of the rate limiter: requests per window and client
RateMax == 100

\* maxCount of upload.array('files', 10)
MaxCount == 10

\* A message text; `arg` holds what a template interpolates into it.
Msg(text) == [text |-> text, arg |-> <<>>]
MsgWith(text, arg) == [text |-> text, arg |-> arg]

\* The files a client may put into a multipart body.
Photo == [originalname |-> <<"a",".","j","p","g">>, mimetype |-> "image/jpeg", size |-> 2048]
Scan  == [originalname |-> <<"B",".","P","N","G">>, mimetype |-> "image/png",
          size |-> DefaultMaxFileSize]
Doc   == [originalname |-> <<"d",".","p","d","f">>, mimetype |-> "application/pdf", size |-> 2048]
Movie == [originalname |-> <<"m",".","m","p","4">>, mimetype |-> "video/mp4",
          size |-> DefaultMaxFileSize + 1]

Repeat(x, n) == [i \in 1..n |-> x]

\* The field name each upload route reads: upload.single('file'),
\* upload.array('files', 10).
ExpectedField(route) == IF route = "single" THEN "file" ELSE "files"

\* A multipart POST to /upload ("single") or /upload/multiple ("multiple")
\* whose file parts all use the field name `field`.
Upload(route, field, shapes) ==
    [route |-> route,
     parts |-> [i \in 1..Len(shapes) |->
                  [fieldname |-> field, originalname |-> shapes[i].originalname,
                   mimetype |-> shapes[i].mimetype, size |-> shapes[i].size]]]

Plain(route) == [route |-> route, parts |-> <<>>]

\* Bodies sent to /upload: nothing, a file at the default size limit with
\* an upper-case extension, a file of a type not allowed, a file over the
\* limit.
SingleLists == {<<>>, <<Scan>>, <<Doc>>, <<Movie>>}

\* Bodies sent to /upload/multiple: nothing, two good files, a good file
\* followed by a bad one, and bodies of maxCount and maxCount + 1 files.
MultipleLists ==
    {<<>>, <<Photo, Scan>>, <<Photo, Doc>>}
    \cup {Repeat(Photo, MaxCount), Repeat(Photo, MaxCount + 1),
          <<Doc>> \o Repeat(Photo, MaxCount)}

\* What a client sends: uploads to either route in the field the route
\* reads, an upload in a field no route reads, a path no route serves.
Requests ==
    {Upload("single", "file", l) : l \in SingleLists}
    \cup {Upload("multiple", "files", l) : l \in MultipleLists}
    \cup {Upload("single", "media", <<Movie>>), Plain("unknown")}

EmptyDisk == [n \in {} |-> 0]

NoError == [code |-> "none", message |-> Msg("")]

\* A response: the request it answers, the status, whether the body is JSON,
\* and the body's fields (`text` alone for a body that is not JSON).
Response(rid, req, status, json, body) ==
    [rid |-> rid, req |-> req, status |-> status, json |-> json, body |-> body]

\* uuidv4(): a value no other call returns. The value is named after the
\* call that drew it: the request being served and the part being stored.
uuidv4(rid, i) == <<rid, i>>

\* Mutant: a name made from the original name alone.
filenameFromOriginal(u, file) == [uuid |-> <<0, 0>>, ext |-> file.originalname]

\* storage.filename: `${uuidv4()}${ext}` with ext the lower-cased extname.
filename(u, file) == [uuid |-> u, ext |-> toLowerCase(extname(file.originalname))]

\* Mutant: the url of the first-generation router.
MediaUrlUploads(name) == [prefix |-> "/media/uploads/", filename |-> name]

\* url of a fileInfo: `/media/${filename}`
MediaUrl(name) == [prefix |-> "/media/", filename |-> name]

\* fileInfo of the route handlers
FileInfo(f) ==
    [success |-> TRUE, originalName |-> f.originalname, filename |-> f.filename,
     size |-> f.size, mimetype |-> f.mimetype,
     extension |-> toLowerCase(extname(f.originalname)),
     url |-> MediaUrl(f.filename)]

\* Mutant: an array middleware that lets one file more through.
MaxFilesLoose(route) == IF route = "single" THEN 1 ELSE MaxCount + 1

\* maxCount of the route's middleware: upload.single -> 1, upload.array -> 10
MaxFiles(route) == IF route = "single" THEN 1 ELSE MaxCount

\* The error fileFilter hands to its callback.
InvalidFileType(file) ==
    [code |-> "INVALID_FILE_TYPE",
     message |-> MsgWith("File type .{ext} is not allowed. Allowed types: {list}",
                         fileExtension(file))]

MulterError(code, text) == [code |-> code, message |-> Msg(text)]

\* The rate limiter, then the router: an upload goes to the multipart
\* middleware of its route, a path no route serves falls through to the 404
\* handler.
Arrive(req) ==
    /\ nreq < MaxRequests
    /\ nreq' = nreq + 1
    /\ hits' = hits + 1
    /\ LET rid == nreq + 1
       IN  IF hits + 1 > RateMax
           THEN /\ last' = Response(rid, req, 429, FALSE,
                     [text |-> "Too many requests from this IP, please try again later."])
                /\ UNCHANGED inflight
           ELSE IF req.route \in {"single", "multiple"}
           THEN /\ inflight' = inflight \cup
                     {[rid |-> rid, route |-> req.route, parts |-> req.parts, pos |-> 0,
                       files |-> <<>>, uploaded |-> <<>>, err |-> NoError]}
                /\ UNCHANGED last
           ELSE /\ last' = Response(rid, req, 404, TRUE,
                     [error |-> "Not found",
                      message |-> Msg("The requested resource was not found")])
                /\ UNCHANGED inflight
    /\ UNCHANGED <<env, disk, reported, filterVars, deployVars, uiVars>>

\* DiskStorage._handleFile under limits.fileSize: the part is written to
\* destination/filename; a part larger than the limit is cut at the limit,
\* kept for removal and reported as LIMIT_FILE_SIZE.
Store(r, p, name, big) ==
    /\ disk' = disk @@ (name :> [content |-> <<r.rid, r.pos + 1>>,
                                 size |-> IF big THEN fileSizeLimit(env) ELSE p.size,
                                 truncated |-> big, originalname |-> p.originalname])
    /\ inflight' = (inflight \ {r}) \cup
         {[r EXCEPT !.pos = r.pos + 1,
                    !.uploaded = Append(r.uploaded, name),
                    !.files = IF big THEN r.files
                              ELSE Append(r.files,
                                     p @@ [filename |-> name, content |-> <<r.rid, r.pos + 1>>]),
                    !.err = IF big THEN MulterError("LIMIT_FILE_SIZE", "File too large")
                            ELSE r.err]}

Fail(r, error) ==
    /\ inflight' = (inflight \ {r}) \cup {[r EXCEPT !.pos = r.pos + 1, !.err = error]}
    /\ UNCHANGED disk

\* The multipart middleware takes the next file part of a request: the count
\* and field check of upload.single / upload.array, fileFilter, then storage.
MulterFile(r) ==
    /\ r.err.code = "none"
    /\ r.pos < Len(r.parts)
    /\ LET p == r.parts[r.pos + 1]
       IN  IF p.fieldname # ExpectedField(r.route) \/ r.pos >= MaxFiles(r.route)
           THEN Fail(r, MulterError("LIMIT_UNEXPECTED_FILE", "Unexpected field"))
           ELSE IF ~fileFilter(env, p)
           THEN Fail(r, InvalidFileType(p))
           ELSE \E big \in TooLarge(env, p.size) :
                    Store(r, p, filename(uuidv4(r.rid, r.pos + 1), p), big)
    /\ UNCHANGED <<env, hits, nreq, last, reported, filterVars, deployVars, uiVars>>

\* The error-handling middleware of server.js.
ErrorHandler(error) ==
    IF error.code = "LIMIT_FILE_SIZE"
    THEN [status |-> 413,
          body |-> [error |-> "File too large",
                    message |-> MsgWith("Maximum file size is {MAX_FILE_SIZE || '100MB'}",
                                        OrDefault(env.MAX_FILE_SIZE, <<"1","0","0","M","B">>))]]
    ELSE IF error.code = "LIMIT_UNEXPECTED_FILE"
    THEN [status |-> 400,
          body |-> [error |-> "Invalid file", message |-> Msg("Unexpected file field")]]
    ELSE IF error.code = "ENOENT"
    THEN [status |-> 500,
          body |-> [error |-> "File system error",
                    message |-> Msg("Upload directory not accessible")]]
    ELSE [status |-> 500,
          body |-> [error |-> "Internal server error",
                    message |-> IF env.NODE_ENV = "development" THEN error.message
                                ELSE Msg("Something went wrong")]]

Without(d, names) == [n \in DOMAIN d \ names |-> d[n]]

\* Mutant: an abort that leaves the files of the failed request in place.
RemoveUploadedNone(d, r) == d

\* multer's abort: every file the failed request has stored is removed.
RemoveUploaded(d, r) == Without(d, {r.uploaded[i] : i \in 1..Len(r.uploaded)})

\* The multipart middleware ends a request with an error: its files are
\* removed and the error goes to next(err), past the route handler, to the
\* error-handling middleware.
MulterAbort(r) ==
    /\ r.err.code # "none"
    /\ disk' = RemoveUploaded(disk, r)
    /\ inflight' = inflight \ {r}
    /\ LET e == ErrorHandler(r.err)
       IN  last' = Response(r.rid, [route |-> r.route, parts |-> r.parts], e.status, TRUE, e.body)
    /\ UNCHANGED <<env, hits, nreq, reported, filterVars, deployVars, uiVars>>

\* Mutant: the body the legacy server sends, which has no message.
NoFileBodyBare(route) ==
    [error |-> IF route = "single" THEN "No file uploaded" ELSE "No files uploaded"]

\* The body of the handlers' `if (!req.file)` / `if (!req.files || ...)` branch.
NoFileBody(route) ==
    IF route = "single"
    THEN [error |-> "No file uploaded",
          message |-> Msg("Please select a file to upload"),
          example |-> "curl -X POST -F \"file=@your-image.jpg\" http://localhost:3200/upload"]
    ELSE [error |-> "No files uploaded",
          message |-> Msg("Please select files to upload"),
          example |-> "curl -X POST -F \"files=@image1.jpg\" -F \"files=@image2.jpg\" http://localhost:3200/upload/multiple"]

\* What a 200 response tells the client about its files: the url of each,
\* with the content and size the client sent in that part.
Report(r) ==
    {[rid |-> r.rid, url |-> FileInfo(r.files[i]).url, content |-> r.files[i].content,
      size |-> r.files[i].size] : i \in 1..Len(r.files)}

\* router.post('/', upload.single('file'), ...)
PostSingle(r) ==
    /\ r.route = "single"
    /\ r.err.code = "none"
    /\ r.pos = Len(r.parts)
    /\ inflight' = inflight \ {r}
    /\ IF r.files = <<>>
       THEN /\ last' = Response(r.rid, [route |-> r.route, parts |-> r.parts], 400, TRUE,
                 NoFileBody(r.route))
            /\ UNCHANGED reported
       ELSE /\ last' = Response(r.rid, [route |-> r.route, parts |-> r.parts], 200, TRUE,
                 [message |-> Msg("File uploaded successfully"),
                  file |-> FileInfo(r.files[1])])
            /\ reported' = reported \cup Report(r)
    /\ UNCHANGED <<env, disk, hits, nreq, filterVars, deployVars, uiVars>>

\* router.post('/multiple', upload.array('files', 10), ...)
PostMultiple(r) ==
    /\ r.route = "multiple"
    /\ r.err.code = "none"
    /\ r.pos = Len(r.parts)
    /\ inflight' = inflight \ {r}
    /\ IF Len(r.files) = 0
       THEN /\ last' = Response(r.rid, [route |-> r.route, parts |-> r.parts], 400, TRUE,
                 NoFileBody(r.route))
            /\ UNCHANGED reported
       ELSE /\ last' = Response(r.rid, [route |-> r.route, parts |-> r.parts], 200, TRUE,
                 [message |-> MsgWith("{n} files uploaded successfully", <<Len(r.files)>>),
                  totalFiles |-> Len(r.files),
                  files |-> [i \in 1..Len(r.files) |-> FileInfo(r.files[i])]])
            /\ reported' = reported \cup Report(r)
    /\ UNCHANGED <<env, disk, hits, nreq, filterVars, deployVars, uiVars>>

\* The static file server: GET /media/<filename> answers with the file of
\* that name in the upload directory, 404 when there is none.
StaticServe(url) ==
    IF url.prefix = "/media/" /\ url.filename \in DOMAIN disk
    THEN [url |-> url, status |-> 200, content |-> disk[url.filename].content,
          size |-> disk[url.filename].size]
    ELSE [url |-> url, status |-> 404, content |-> <<0, 0>>, size |-> 0]

\* The server after its start, the upload directory empty. The client either
\* has sent nothing in the limiter's window yet, or has used up all but one
\* request of it with earlier health checks.
Init ==
    /\ env \in ApiEnvs
    /\ disk = EmptyDisk
    /\ hits \in {0, RateMax - 1}
    /\ nreq = 0
    /\ inflight = {}
    /\ last = NoResponse
    /\ reported = {}
    /\ FilterIdle
    /\ DeployIdle
    /\ UiIdle

Next ==
    \/ \E req \in Requests : Arrive(req)
    \/ \E r \in inflight : MulterFile(r)
    \/ \E r \in inflight : MulterAbort(r)
    \/ \E r \in inflight : PostSingle(r)
    \/ \E r \in inflight : PostMultiple(r)

Spec == Init /\ [][Next]_vars

-----------------------------------------------------------------------------
(* scripts/deploy.sh *)

\* MAX_RETRIES of health_check
MAX_RETRIES == 30

\* $n of an argument list; empty when there are fewer arguments.
Arg(args, n) == IF Len(args) >= n THEN args[n] ELSE ""

\* Command lines the script is run with.
DeployCommands ==
    { <<>>, <<"deploy">>, <<"deploy", "--skip-backup">>, <<"--skip-backup">>,
      <<"stop">>, <<"restart">>, <<"status">>, <<"logs">>, <<"cleanup">>,
      <<"health">>, <<"--help">>, <<"-h">>, <<"rollback">> }

\* What the script may find on the host: docker and compose usable, the
\* compose file, .env and its template present, the stack running.
DeployWorlds ==
    [docker : BOOLEAN, composeFile : BOOLEAN, envFile : BOOLEAN,
     envExample : BOOLEAN, running : BOOLEAN]

InitDeploy ==
    /\ env = EnvDefault
    /\ ApiIdle
    /\ FilterIdle
    /\ UiIdle
    /\ dArgs \in DeployCommands
    /\ dWorld \in DeployWorlds
    /\ dPc = "dispatch"
    /\ dBackup = FALSE
    /\ dStopped = FALSE
    /\ dRetry = 0

\* A docker command of the script: under `set -e` the script ends when the
\* command fails, which it does when docker is not usable.
DockerStep(ok, world) ==
    IF dWorld.docker
    THEN dPc' = ok /\ dWorld' = world
    ELSE dPc' = "failed" /\ UNCHANGED dWorld

\* case "${1:-deploy}" in ... esac
Dispatch ==
    /\ dPc = "dispatch"
    /\ LET cmd == IF Arg(dArgs, 1) = "" THEN "deploy" ELSE Arg(dArgs, 1)
       IN  IF cmd = "deploy"
           THEN dPc' = "check_docker" /\ UNCHANGED <<dWorld, dStopped>>
           ELSE IF cmd = "stop"
           THEN /\ DockerStep("done", [dWorld EXCEPT !.running = FALSE])
                /\ dStopped' = dWorld.docker
           ELSE IF cmd \in {"restart", "status", "logs", "cleanup"}
           THEN DockerStep("done", dWorld) /\ UNCHANGED dStopped
           ELSE IF cmd = "health"
           THEN dPc' = "health_check" /\ UNCHANGED <<dWorld, dStopped>>
           ELSE IF cmd \in {"-h", "--help"}
           THEN dPc' = "done" /\ UNCHANGED <<dWorld, dStopped>>
           ELSE dPc' = "failed" /\ UNCHANGED <<dWorld, dStopped>>
    /\ UNCHANGED <<dArgs, dBackup, dRetry, env, apiVars, filterVars, uiVars>>

check_docker ==
    /\ dPc = "check_docker"
    /\ dPc' = IF dWorld.docker THEN "check_files" ELSE "failed"
    /\ UNCHANGED <<dArgs, dWorld, dBackup, dStopped, dRetry, env, apiVars, filterVars, uiVars>>

check_files ==
    /\ dPc = "check_files"
    /\ IF ~dWorld.composeFile
       THEN dPc' = "failed" /\ UNCHANGED dWorld
       ELSE IF dWorld.envFile
       THEN dPc' = "create_directories" /\ UNCHANGED dWorld
       ELSE IF dWorld.envExample
       THEN dPc' = "create_directories" /\ dWorld' = [dWorld EXCEPT !.envFile = TRUE]
       ELSE dPc' = "failed" /\ UNCHANGED dWorld
    /\ UNCHANGED <<dArgs, dBackup, dStopped, dRetry, env, apiVars, filterVars, uiVars>>

create_directories ==
    /\ dPc = "create_directories"
    /\ dPc' = "backup_deployment"
    /\ UNCHANGED <<dArgs, dWorld, dBackup, dStopped, dRetry, env, apiVars, filterVars, uiVars>>

\* The arguments deploy hands to backup_deployment: deploy is called as
\* deploy "$@" and calls backup_deployment "$@", so they are the script's.
BackupArgs(args) == args

\* backup_deployment: skipped when its $1 is --skip-backup, else the archive
\* is written.
backup_deployment ==
    /\ dPc = "backup_deployment"
    /\ dBackup' = IF Arg(BackupArgs(dArgs), 1) = "--skip-backup" THEN dBackup ELSE TRUE
    /\ dPc' = "stop_services"
    /\ UNCHANGED <<dArgs, dWorld, dStopped, dRetry, env, apiVars, filterVars, uiVars>>

stop_services ==
    /\ dPc = "stop_services"
    /\ dPc' = "pull_images"
    /\ dWorld' = [dWorld EXCEPT !.running = FALSE]
    /\ dStopped' = dWorld.running
    /\ UNCHANGED <<dArgs, dBackup, dRetry, env, apiVars, filterVars, uiVars>>

pull_images ==
    /\ dPc = "pull_images"
    /\ dPc' = "start_services"
    /\ UNCHANGED <<dArgs, dWorld, dBackup, dStopped, dRetry, env, apiVars, filterVars, uiVars>>

start_services ==
    /\ dPc = "start_services"
    /\ dPc' = "health_check"
    /\ dWorld' = [dWorld EXCEPT !.running = TRUE]
    /\ UNCHANGED <<dArgs, dBackup, dStopped, dRetry, env, apiVars, filterVars, uiVars>>

\* health_check up to its loop: the container status, RETRY_COUNT=0
health_check ==
    /\ dPc = "health_check"
    /\ dPc' = IF dWorld.docker /\ dWorld.running THEN "health_api" ELSE "failed"
    /\ dRetry' = 0
    /\ UNCHANGED <<dArgs, dWorld, dBackup, dStopped, env, apiVars, filterVars, uiVars>>

\* One turn of the loop of health_check and the test after it: the API
\* answers or not.
health_api ==
    /\ dPc = "health_api"
    /\ IF dRetry < MAX_RETRIES
       THEN \E up \in BOOLEAN :
               IF up THEN dPc' = "health_nginx" /\ UNCHANGED dRetry
               ELSE dRetry' = dRetry + 1 /\ UNCHANGED dPc
       ELSE dPc' = "failed" /\ UNCHANGED dRetry
    /\ UNCHANGED <<dArgs, dWorld, dBackup, dStopped, env, apiVars, filterVars, uiVars>>

\* The end of health_check: Nginx is probed, its answer only logged.
health_nginx ==
    /\ dPc = "health_nginx"
    /\ dPc' = IF Arg(dArgs, 1) = "health" THEN "done" ELSE "show_info"
    /\ UNCHANGED <<dArgs, dWorld, dBackup, dStopped, dRetry, env, apiVars, filterVars, uiVars>>

show_info ==
    /\ dPc = "show_info"
    /\ dPc' = "done"
    /\ UNCHANGED <<dArgs, dWorld, dBackup, dStopped, dRetry, env, apiVars, filterVars, uiVars>>

NextDeploy ==
    \/ Dispatch
    \/ check_docker
    \/ check_files
    \/ create_directories
    \/ backup_deployment
    \/ stop_services
    \/ pull_images
    \/ start_services
    \/ health_check
    \/ health_api
    \/ health_nginx
    \/ show_info

SpecDeploy == InitDeploy /\ [][NextDeploy]_vars

\* C10 as stated: `deploy --skip-backup` deploys without creating a backup
\* archive, and plain `deploy` has created the archive before it stops any
\* service.
C10_AsStated ==
    /\ dArgs = <<"deploy", "--skip-backup">> => ~dBackup
    /\ (dArgs = <<"deploy">> /\ dStopped) => dBackup

-----------------------------------------------------------------------------
(* Frontend: UploadPage, FileUpload (components/FileUpload.js, services/api.js)
   and GalleryPage *)

\* Files in one drop onto the upload zone.
MaxDrop == 2

\* Uploads the user starts before the model stops.
MaxUploads == 2

\* null / undefined
Null == [pc |-> "null"]

\* configuration of the response of GET /upload/info
InfoConfiguration(e) ==
    [maxFileSize |-> fileSizeOf(e.MAX_FILE_SIZE),
     allowedExtensions |-> split(OrDefault(e.ALLOWED_EXTENSIONS, DefaultExtensions))]

\* Files the user may drop: a small video with an upper-case extension, a
\* document, a video over the default size limit.
Clip == [name |-> <<"c",".","M","P","4">>, size |-> 2048]
Pdf  == [name |-> <<"d",".","p","d","f">>, size |-> 8192]
Huge == [name |-> <<"m",".","m","p","4">>, size |-> DefaultMaxFileSize + 1]

UiFiles == {Clip, Pdf, Huge}

\* The sequences of at most n elements of S.
RECURSIVE SeqsUpTo(_, _)
SeqsUpTo(S, n) ==
    IF n = 0 THEN {<<>>}
    ELSE LET shorter == SeqsUpTo(S, n - 1)
         IN  shorter \cup {Append(q, x) : q \in shorter, x \in S}

Drops == SeqsUpTo(UiFiles, MaxDrop)

\* file.name.split('.').pop()?.toLowerCase(): the text after the last dot,
\* the whole name when it has no dot.
popExtension(name) == toLowerCase(SubSeq(name, LastDot(name) + 1, Len(name)))

\* ApiService.validateFile: the errors of a file, in the order found.
validateFile(file, maxSize, allowedTypes) ==
    (IF file.size > maxSize THEN <<"size">> ELSE <<>>)
    \o (IF Len(allowedTypes) > 0 /\ ~includes(allowedTypes, popExtension(file.name))
        THEN <<"type">> ELSE <<>>)

\* Mutant: a validation that checks sizes only.
validationErrorsSizeOnly(files, config) ==
    LET bad == SelectSeq(files, LAMBDA f : f.size > config.maxFileSize)
    IN  [i \in 1..Len(bad) |-> [name |-> bad[i].name, errors |-> <<"size">>]]

\* The `errors` array of onDrop: one entry for every file that fails
\* validateFile, in the order dropped.
validationErrors(files, config) ==
    LET bad == SelectSeq(files, LAMBDA f :
                   validateFile(f, config.maxFileSize, config.allowedExtensions) # <<>>)
    IN  [i \in 1..Len(bad) |->
           [name |-> bad[i].name,
            errors |-> validateFile(bad[i], config.maxFileSize, config.allowedExtensions)]]

\* The configurations the page may have loaded.
UploadConfigs == {InfoConfiguration(e) : e \in ApiEnvs}

\* validationErrors of every drop under every configuration, computed once.
DropErrors ==
    [config \in UploadConfigs |-> [files \in Drops |-> validationErrors(files, config)]]

\* UploadPage and FileUpload after the configuration has loaded, the browser
\* with an empty localStorage, the gallery not opened.
InitUpload ==
    /\ env = EnvDefault
    /\ ApiIdle
    /\ FilterIdle
    /\ DeployIdle
    /\ \E config \in UploadConfigs :
          page = [uploadConfig |-> config, recentUploads |-> <<>>, succeeded |-> FALSE]
    /\ fu = [uploading |-> FALSE, progress |-> 0, uploadResult |-> Null, error |-> Null,
             selectedFiles |-> <<>>, sent |-> <<>>, runs |-> 0, calls |-> 0,
             outcome |-> "none"]
    /\ store = [saggersrule_uploads |-> Null]
    /\ gal = Off
    /\ post = Off /\ guard = Off /\ sess = Off /\ onb = Off /\ vault = Off
    /\ legacy = Off /\ info = Off

uploadOthers ==
    <<env, apiVars, filterVars, deployVars, post, guard, sess, onb, vault, legacy, info>>

\* FileUpload.onDrop (the drop zone is disabled while uploading)
onDrop(acceptedFiles) ==
    /\ ~fu.uploading
    /\ LET errors == DropErrors[page.uploadConfig][acceptedFiles]
       IN  fu' = IF Len(errors) > 0
                 THEN [fu EXCEPT !.uploadResult = Null,
                                 !.error = [kind |-> "validation", files |-> errors]]
                 ELSE [fu EXCEPT !.uploadResult = Null, !.error = Null,
                                 !.selectedFiles = acceptedFiles]
    /\ UNCHANGED <<page, store, gal, uploadOthers>>

\* FileUpload.removeFile
removeFile(index) ==
    /\ index \in 1..Len(fu.selectedFiles)
    /\ fu' = [fu EXCEPT !.selectedFiles =
                 [i \in 1..(Len(fu.selectedFiles) - 1) |->
                     IF i < index THEN fu.selectedFiles[i] ELSE fu.selectedFiles[i + 1]]]
    /\ UNCHANGED <<page, store, gal, uploadOthers>>

\* FileUpload.clearAll (the button shows while files are selected)
clearAll ==
    /\ fu.selectedFiles # <<>>
    /\ fu' = [fu EXCEPT !.selectedFiles = <<>>, !.uploadResult = Null, !.error = Null]
    /\ UNCHANGED <<page, store, gal, uploadOthers>>

\* FileUpload.handleUpload up to its await: nothing with an empty
\* selection, else the request is sent with the files selected now.
handleUpload ==
    /\ ~fu.uploading
    /\ fu.runs < MaxUploads
    /\ IF fu.selectedFiles = <<>>
       THEN UNCHANGED fu
       ELSE fu' = [fu EXCEPT !.uploading = TRUE, !.progress = 0, !.error = Null,
                             !.sent = fu.selectedFiles, !.runs = fu.runs + 1,
                             !.calls = 0, !.outcome = "pending"]
    /\ UNCHANGED <<page, store, gal, uploadOthers>>

\* onUploadProgress -> setProgress
onUploadProgress ==
    /\ fu.uploading
    /\ fu.progress < 100
    /\ fu' = [fu EXCEPT !.progress = 100]
    /\ UNCHANGED <<page, store, gal, uploadOthers>>

\* response.data of a 200 from POST /upload (one file) or /upload/multiple
UploadData(files) ==
    IF Len(files) = 1
    THEN [message |-> "File uploaded successfully", file |-> [originalName |-> files[1].name]]
    ELSE [message |-> "files uploaded successfully", totalFiles |-> Len(files),
          files |-> [i \in 1..Len(files) |-> [originalName |-> files[i].name]]]

take(q, n) == SubSeq(q, 1, IF Len(q) < n THEN Len(q) ELSE n)

\* UploadPage.handleUploadComplete
handleUploadComplete(result, prev) ==
    IF "file" \in DOMAIN result THEN <<result.file>> \o take(prev, 4)
    ELSE IF "files" \in DOMAIN result THEN take(result.files \o prev, 5)
    ELSE prev

\* Mutant: a handler that forgets to clear the selection after a success.
selectionAfterSuccessKept(selected) == selected

\* setSelectedFiles([]) on the success path of handleUpload
selectionAfterSuccess(selected) == <<>>

\* handleUpload after its await, the request answered 200: the try block to
\* its end, then finally.
uploadSucceeds ==
    /\ fu.uploading
    /\ LET result == UploadData(fu.sent)
       IN  /\ fu' = [fu EXCEPT !.uploadResult = result,
                               !.selectedFiles = selectionAfterSuccess(fu.selectedFiles),
                               !.calls = fu.calls + 1, !.sent = <<>>,
                               !.uploading = FALSE, !.progress = 0,
                               !.outcome = "success"]
           /\ page' = [page EXCEPT
                         !.recentUploads = handleUploadComplete(result, page.recentUploads),
                         !.succeeded = TRUE]
    /\ UNCHANGED <<store, gal, uploadOthers>>

\* error.response?.data?.message || error.message || 'Upload failed'
UploadErrors == {"network", "413", "500"}

\* handleUpload after its await, the request failed: catch, then finally.
uploadFails ==
    /\ fu.uploading
    /\ \E e \in UploadErrors :
          fu' = [fu EXCEPT !.error = [kind |-> "upload", cause |-> e], !.sent = <<>>,
                           !.uploading = FALSE, !.progress = 0, !.outcome = "failure"]
    /\ UNCHANGED <<page, store, gal, uploadOthers>>

\* GalleryPage is mounted: useState initial values.
galleryMount ==
    /\ gal = Off
    /\ gal' = [loading |-> TRUE, mediaFiles |-> <<>>, afterSuccess |-> page.succeeded]
    /\ UNCHANGED <<fu, page, store, uploadOthers>>

\* GalleryPage useEffect: loadMediaFiles
loadMediaFiles ==
    /\ gal # Off
    /\ gal.loading
    /\ gal' = [gal EXCEPT !.loading = FALSE,
                          !.mediaFiles = IF store.saggersrule_uploads # Null
                                         THEN store.saggersrule_uploads ELSE gal.mediaFiles]
    /\ UNCHANGED <<fu, page, store, uploadOthers>>

\* The user leaves the gallery.
galleryUnmount ==
    /\ gal # Off
    /\ ~gal.loading
    /\ gal' = Off
    /\ UNCHANGED <<fu, page, store, uploadOthers>>

NextUpload ==
    \/ \E files \in Drops : onDrop(files)
    \/ \E i \in 1..MaxDrop : removeFile(i)
    \/ clearAll
    \/ handleUpload
    \/ onUploadProgress
    \/ uploadSucceeds
    \/ uploadFails
    \/ galleryMount
    \/ loadMediaFiles
    \/ galleryUnmount

SpecUpload == InitUpload /\ [][NextUpload]_vars

-----------------------------------------------------------------------------
(* Frontend: CreatePostModal (App.js) *)

\* Files chosen in the modal's file input.
MaxPostFiles == 2

\* Submissions of the modal before the model stops.
MaxSubmits == 2

\* The modal as the feed opens it. `log` holds the requests of the running
\* or last submission and how they ended; `calls` counts, over all
\* submissions, the create-post requests sent and answered and the
\* onPostCreated and onClose calls handleSubmit made.
ModalOpened(submits, calls) ==
    [open |-> TRUE, selectedFiles |-> 0, uploading |-> FALSE, uploadProgress |-> 0,
     pc |-> "idle", mediaUrls |-> 0, log |-> <<>>, alerts |-> 0,
     submits |-> submits, calls |-> calls]

InitPost ==
    /\ env = EnvDefault
    /\ ApiIdle
    /\ FilterIdle
    /\ DeployIdle
    /\ post = ModalOpened(0, [sent |-> 0, created |-> 0, onPostCreated |-> 0, onClose |-> 0])
    /\ fu = Off /\ page = Off /\ store = Off /\ gal = Off /\ guard = Off /\ sess = Off
    /\ onb = Off /\ vault = Off /\ legacy = Off /\ info = Off

postOthers ==
    <<env, apiVars, filterVars, deployVars, fu, page, store, gal, guard, sess, onb, vault,
      legacy, info>>

\* CreatePostModal.handleFileSelect
handleFileSelect(n) ==
    /\ post.open
    /\ post' = [post EXCEPT !.selectedFiles = n]
    /\ UNCHANGED postOthers

\* CreatePostModal.removeFile
postRemoveFile ==
    /\ post.open
    /\ post.selectedFiles > 0
    /\ post' = [post EXCEPT !.selectedFiles = post.selectedFiles - 1]
    /\ UNCHANGED postOthers

\* handleSubmit up to its first await (the submit button is disabled while
\* uploading): the upload request when files are selected, the create-post
\* request at once when none is.
handleSubmit ==
    /\ post.open
    /\ ~post.uploading
    /\ post.submits < MaxSubmits
    /\ post' = IF post.selectedFiles > 0
               THEN [post EXCEPT !.uploading = TRUE, !.uploadProgress = 30, !.pc = "upload",
                                 !.mediaUrls = 0, !.log = <<"upload">>,
                                 !.submits = post.submits + 1]
               ELSE [post EXCEPT !.uploading = TRUE, !.uploadProgress = 80, !.pc = "create",
                                 !.mediaUrls = 0, !.log = <<"post">>,
                                 !.submits = post.submits + 1,
                                 !.calls.sent = post.calls.sent + 1]
    /\ UNCHANGED postOthers

\* onUploadProgress of the upload request: 30 + progress * 0.5
postUploadProgress ==
    /\ post.pc = "upload"
    /\ \E progress \in {50, 100} :
          /\ 30 + progress \div 2 > post.uploadProgress
          /\ post' = [post EXCEPT !.uploadProgress = 30 + progress \div 2]
    /\ UNCHANGED postOthers

\* Mutant: a handler that goes on to create the post whatever the upload did.
afterUploadAlways(outcome) == "create"

\* Where handleSubmit continues when the upload request settles: after the
\* await when it resolved, in the catch block when it rejected.
afterUpload(outcome) == IF outcome = "rejected" THEN "catch" ELSE "create"

\* The upload request settles. Resolved: mediaUrls from the response when it
\* says success, progress 80, the create-post request is sent. Rejected:
\* catch (alert) and finally.
uploadSettles ==
    /\ post.pc = "upload"
    /\ \E outcome \in {"success", "unsuccessful", "rejected"} :
          post' = IF afterUpload(outcome) = "create"
                  THEN [post EXCEPT !.mediaUrls = IF outcome = "success"
                                                  THEN post.selectedFiles ELSE 0,
                                    !.uploadProgress = 80, !.pc = "create",
                                    !.log = post.log \o
                                        <<IF outcome = "rejected" THEN "uploadFailed"
                                          ELSE "uploadDone", "post">>,
                                    !.calls.sent = post.calls.sent + 1]
                  ELSE [post EXCEPT !.uploading = FALSE, !.uploadProgress = 0, !.pc = "idle",
                                    !.log = Append(post.log, "uploadFailed"),
                                    !.alerts = post.alerts + 1]
    /\ UNCHANGED postOthers

\* The create-post request settles. Resolved: onPostCreated(), onClose(),
\* finally. Rejected: catch (alert) and finally.
postSettles ==
    /\ post.pc = "create"
    /\ \E ok \in BOOLEAN :
          post' = IF ok
                  THEN [post EXCEPT !.open = FALSE, !.uploading = FALSE, !.uploadProgress = 0,
                                    !.pc = "idle", !.log = Append(post.log, "postDone"),
                                    !.calls.created = post.calls.created + 1,
                                    !.calls.onPostCreated = post.calls.onPostCreated + 1,
                                    !.calls.onClose = post.calls.onClose + 1]
                  ELSE [post EXCEPT !.uploading = FALSE, !.uploadProgress = 0, !.pc = "idle",
                                    !.log = Append(post.log, "postFailed"),
                                    !.alerts = post.alerts + 1]
    /\ UNCHANGED postOthers

\* The Cancel button (disabled while uploading) closes the modal.
postCancel ==
    /\ post.open
    /\ ~post.uploading
    /\ post' = [post EXCEPT !.open = FALSE]
    /\ UNCHANGED postOthers

\* The feed opens a new modal.
postOpen ==
    /\ ~post.open
    /\ post' = ModalOpened(post.submits, post.calls)
    /\ UNCHANGED postOthers

NextPost ==
    \/ \E n \in 0..MaxPostFiles : handleFileSelect(n)
    \/ postRemoveFile
    \/ handleSubmit
    \/ postUploadProgress
    \/ uploadSettles
    \/ postSettles
    \/ postCancel
    \/ postOpen

SpecPost == InitPost /\ [][NextPost]_vars

-----------------------------------------------------------------------------
(* Frontend: OnboardingPage (App.js) *)

\* What the age field (input type="number") may hold: the text, and whether
\* the number it stands for is below 18.
Ages ==
    {[text |-> <<>>,                 minor |-> FALSE],
     [text |-> <<"5">>,              minor |-> TRUE],
     [text |-> <<"1","7">>,          minor |-> TRUE],
     [text |-> <<"-","5">>,          minor |-> TRUE],
     [text |-> <<"1","7",".","9">>,  minor |-> TRUE],
     [text |-> <<".","5">>,          minor |-> TRUE],
     [text |-> <<"1","8">>,          minor |-> FALSE],
     [text |-> <<"4","2">>,          minor |-> FALSE]}

\* parseInt(formData.age) < 18; a comparison with NaN is false.
Under18(text) ==
    LET n == parseInt(Value(text))
    IN  ~n.nan /\ n.val < 18

InitOnboarding ==
    /\ env = EnvDefault
    /\ ApiIdle
    /\ FilterIdle
    /\ DeployIdle
    /\ onb = [age |-> CHOOSE a \in Ages : a.text = <<>>, loading |-> FALSE, error |-> "",
              pc |-> "idle", sent |-> Null, navigated |-> FALSE, submits |-> 0]
    /\ fu = Off /\ page = Off /\ store = Off /\ gal = Off /\ post = Off /\ guard = Off
    /\ sess = Off /\ vault = Off /\ legacy = Off /\ info = Off

onbOthers ==
    <<env, apiVars, filterVars, deployVars, fu, page, store, gal, post, guard, sess, vault,
      legacy, info>>

\* onChange of the age field
setAge(a) ==
    /\ ~onb.navigated
    /\ onb' = [onb EXCEPT !.age = a]
    /\ UNCHANGED onbOthers

\* OnboardingPage.handleSubmit up to its first await (the button is disabled
\* while loading): rejected locally, or the request is sent.
onbSubmit ==
    /\ onb.pc = "idle"
    /\ ~onb.navigated
    /\ onb.submits < MaxSubmits
    /\ onb' = IF Under18(onb.age.text)
              THEN [onb EXCEPT !.error = "You must be 18 or older to join SaggersRule",
                               !.loading = FALSE, !.submits = onb.submits + 1]
              ELSE [onb EXCEPT !.error = "", !.loading = TRUE, !.pc = "posting",
                               !.sent = onb.age, !.submits = onb.submits + 1]
    /\ UNCHANGED onbOthers

\* The complete-onboarding request settles: checkAuth is awaited next, or
\* catch and finally.
onbRequestSettles ==
    /\ onb.pc = "posting"
    /\ \E ok \in BOOLEAN :
          onb' = IF ok THEN [onb EXCEPT !.pc = "checkAuth"]
                 ELSE [onb EXCEPT !.error = "Failed to complete onboarding",
                                  !.loading = FALSE, !.pc = "idle"]
    /\ UNCHANGED onbOthers

\* checkAuth has returned: navigate('/dashboard'), finally.
onbNavigate ==
    /\ onb.pc = "checkAuth"
    /\ onb' = [onb EXCEPT !.navigated = TRUE, !.loading = FALSE, !.pc = "idle"]
    /\ UNCHANGED onbOthers

NextOnboarding ==
    \/ \E a \in Ages : setAge(a)
    \/ onbSubmit
    \/ onbRequestSettles
    \/ onbNavigate

SpecOnboarding == InitOnboarding /\ [][NextOnboarding]_vars

-----------------------------------------------------------------------------
(* Frontend: AuthProvider, SessionHandler, ProtectedRoute and the routes
   (App.js) *)

\* Entries of the browser's session history before the model stops.
MaxHistory == 3

\* Exchange requests sent before the model stops going back.
MaxExchanges == 2

Routes == {"/", "/onboarding", "/dashboard", "/admin"}

\* response.data of GET /auth/me
Member  == [is_admin |-> FALSE]
Admin   == [is_admin |-> TRUE]

\* Mutant: a ProtectedRoute that does not wait for the auth check.
ProtectedRouteNoWait(g, requireAdmin, children) ==
    IF ~g.isAuthenticated THEN [to |-> "/"]
    ELSE IF requireAdmin /\ (g.user = Null \/ ~g.user.is_admin) THEN [to |-> "/dashboard"]
    ELSE [show |-> children]

\* ProtectedRoute: what it returns for the auth context g.
ProtectedRoute(g, requireAdmin, children) ==
    IF g.loading THEN [show |-> "spinner"]
    ELSE IF ~g.isAuthenticated THEN [to |-> "/"]
    ELSE IF requireAdmin /\ (g.user = Null \/ ~g.user.is_admin) THEN [to |-> "/dashboard"]
    ELSE [show |-> children]

\* <Routes>: the element of a path, rendered. LandingPage redirects an
\* authenticated user; AdminDashboard checks user.is_admin once more.
Element(path, g) ==
    CASE path = "/" -> IF g.isAuthenticated THEN [to |-> "/dashboard"]
                       ELSE [show |-> "LandingPage"]
      [] path = "/onboarding" -> ProtectedRoute(g, FALSE, "OnboardingPage")
      [] path = "/dashboard" -> ProtectedRoute(g, FALSE, "Dashboard")
      [] path = "/admin" ->
            ProtectedRoute(g, TRUE, IF g.user # Null /\ g.user.is_admin
                                    THEN "AdminDashboard" ELSE "Access denied")

\* navigate(to): a new entry after the current one.
navigate(g, to) ==
    [g EXCEPT !.history = Append(SubSeq(g.history, 1, g.idx), [path |-> to, sid |-> FALSE]),
              !.idx = g.idx + 1]

\* Render the current location; a <Navigate to replace /> replaces the
\* current entry and the new location is rendered in turn. `shown` is the
\* page on screen, `waited` whether every redirect so far was made with the
\* auth check finished.
RECURSIVE Render(_)
Render(g) ==
    LET e == Element(g.history[g.idx].path, g)
    IN  IF "to" \in DOMAIN e
        THEN Render([g EXCEPT !.history[g.idx] = [path |-> e.to, sid |-> FALSE],
                              !.waited = g.waited /\ ~g.loading])
        ELSE [g EXCEPT !.shown = e.show]

\* The effect of SessionHandler, run after a render: the exchange request is
\* sent when the fragment carries a session_id and nothing is processing.
handleSessionId(g, h) ==
    IF g.history[g.idx].sid /\ ~h.processing
    THEN [h EXCEPT !.processing = TRUE, !.pc = "exchange", !.sent = h.sent + 1]
    ELSE h

\* The app is opened at some route, with or without a session_id fragment:
\* AuthProvider calls checkAuth, SessionHandler runs its effect.
InitAuth ==
    /\ env = EnvDefault
    /\ ApiIdle
    /\ FilterIdle
    /\ DeployIdle
    /\ \E path \in Routes, sid \in BOOLEAN :
          LET g == [user |-> Null, loading |-> TRUE, isAuthenticated |-> FALSE,
                    checking |-> TRUE, history |-> <<[path |-> path, sid |-> sid]>>,
                    idx |-> 1, shown |-> "", waited |-> TRUE]
              h == [processing |-> FALSE, pc |-> "idle", sent |-> 0, target |-> ""]
          IN  /\ sess = handleSessionId(g, h)
              /\ guard = Render(g)
    /\ fu = Off /\ page = Off /\ store = Off /\ gal = Off /\ post = Off /\ onb = Off
    /\ vault = Off /\ legacy = Off /\ info = Off

authOthers ==
    <<env, apiVars, filterVars, deployVars, fu, page, store, gal, post, onb, vault, legacy,
      info>>

\* checkAuth after GET /auth/me has settled: try or catch, then finally.
checkAuth(g, me) ==
    [g EXCEPT !.user = me, !.isAuthenticated = (me # Null), !.loading = FALSE]

\* The checkAuth call AuthProvider made on mount finishes.
checkAuthSettles ==
    /\ guard.checking
    /\ \E me \in {Null, Member, Admin} :
          LET g == [checkAuth(guard, me) EXCEPT !.checking = FALSE]
          IN  /\ sess' = handleSessionId(g, sess)
              /\ guard' = Render(g)
    /\ UNCHANGED authOthers

\* POST /auth/session-data settles. Resolved: navigate to /onboarding or
\* /dashboard, then checkAuth is awaited. Rejected: navigate('/'), finally.
exchangeSettles ==
    /\ sess.pc = "exchange"
    /\ \E outcome \in {"requires_onboarding", "ok", "error"} :
          LET to == CASE outcome = "requires_onboarding" -> "/onboarding"
                      [] outcome = "ok" -> "/dashboard"
                      [] outcome = "error" -> "/"
              g == navigate(guard, to)
              h == IF outcome = "error"
                   THEN [sess EXCEPT !.processing = FALSE, !.pc = "idle", !.target = to]
                   ELSE [sess EXCEPT !.pc = "checkAuth", !.target = to]
          IN  /\ sess' = handleSessionId(g, h)
              /\ guard' = Render(g)
    /\ UNCHANGED authOthers

\* The checkAuth call SessionHandler awaits finishes: finally.
sessionCheckAuthSettles ==
    /\ sess.pc = "checkAuth"
    /\ \E me \in {Null, Member, Admin} :
          LET g == checkAuth(guard, me)
              h == [sess EXCEPT !.processing = FALSE, !.pc = "idle"]
          IN  /\ sess' = handleSessionId(g, h)
              /\ guard' = Render(g)
    /\ UNCHANGED authOthers

\* The browser's Back button.
goBack ==
    /\ guard.idx > 1
    /\ sess.sent < MaxExchanges
    /\ LET g == [guard EXCEPT !.idx = guard.idx - 1]
       IN  /\ sess' = handleSessionId(g, sess)
           /\ guard' = Render(g)
    /\ UNCHANGED authOthers

\* A link of the app is followed.
followLink(path) ==
    /\ guard.idx < MaxHistory
    /\ LET g == navigate(guard, path)
       IN  /\ sess' = handleSessionId(g, sess)
           /\ guard' = Render(g)
    /\ UNCHANGED authOthers

\* AuthProvider.logout, the request answered.
logout ==
    /\ guard.isAuthenticated
    /\ LET g == [guard EXCEPT !.user = Null, !.isAuthenticated = FALSE]
       IN  /\ sess' = handleSessionId(g, sess)
           /\ guard' = Render(g)
    /\ UNCHANGED authOthers

NextAuth ==
    \/ checkAuthSettles
    \/ exchangeSettles
    \/ sessionCheckAuthSettles
    \/ goBack
    \/ \E path \in Routes : followLink(path)
    \/ logout

SpecAuth == InitAuth /\ [][NextAuth]_vars

-----------------------------------------------------------------------------
(* Frontend: DocumentVault (VaultManager.js) *)

InitVault ==
    /\ env = EnvDefault
    /\ ApiIdle
    /\ FilterIdle
    /\ DeployIdle
    /\ vault = [selectedFiles |-> <<>>, pc |-> "idle", batch |-> <<>>, sent |-> <<>>,
                outcomes |-> <<>>, alert |-> Null, completed |-> 0]
    /\ fu = Off /\ page = Off /\ store = Off /\ gal = Off /\ post = Off /\ guard = Off
    /\ sess = Off /\ onb = Off /\ legacy = Off /\ info = Off

vaultOthers ==
    <<env, apiVars, filterVars, deployVars, fu, page, store, gal, post, guard, sess, onb,
      legacy, info>>

\* DocumentVault.handleFileSelect
vaultFileSelect(files) ==
    /\ vault' = [vault EXCEPT !.selectedFiles = files]
    /\ UNCHANGED vaultOthers

\* DocumentVault.handleUpload up to its first await (the button is disabled
\* while loading): the alert for an empty selection, else the first file of
\* the selection is sent.
vaultHandleUpload ==
    /\ vault.pc = "idle"
    /\ vault' = IF vault.selectedFiles = <<>>
                THEN [vault EXCEPT !.alert = [text |-> "Please select files to upload"]]
                ELSE [vault EXCEPT !.pc = "uploading", !.batch = vault.selectedFiles,
                                   !.sent = <<vault.selectedFiles[1]>>, !.outcomes = <<>>,
                                   !.alert = Null, !.completed = 0]
    /\ UNCHANGED vaultOthers

\* uploadToVault settles for the file in flight: onUploadComplete or the
\* failure alert, then the next file of the loop, or after the last one
\* setSelectedFiles([]) and the final alert with selectedFiles.length.
uploadToVaultSettles ==
    /\ vault.pc = "uploading"
    /\ \E ok \in BOOLEAN :
          LET i == Len(vault.sent)
              outcomes == Append(vault.outcomes, ok)
              completed == IF ok THEN vault.completed + 1 ELSE vault.completed
          IN  vault' = IF i < Len(vault.batch)
                       THEN [vault EXCEPT !.sent = Append(vault.sent, vault.batch[i + 1]),
                                          !.outcomes = outcomes, !.completed = completed]
                       ELSE [vault EXCEPT !.outcomes = outcomes, !.completed = completed,
                                          !.pc = "idle", !.selectedFiles = <<>>,
                                          !.alert = [text |-> "files uploaded to NAS vault successfully!",
                                                     count |-> Len(vault.batch)]]
    /\ UNCHANGED vaultOthers

NextVault ==
    \/ \E files \in Drops : vaultFileSelect(files)
    \/ vaultHandleUpload
    \/ uploadToVaultSettles

SpecVault == InitVault /\ [][NextVault]_vars

-----------------------------------------------------------------------------
(* The legacy server (media-api/server.js) *)

\* Bodies sent to POST /upload in the field `media`.
LegacyLists == SeqsUpTo({Photo, Scan, Doc, Movie}, MaxDrop)

\* Mutant: a filter that accepts every file.
legacyFileFilterAll(e, file) == TRUE

\* fileFilter of the legacy server: TRUE for cb(null, true), FALSE for
\* cb(null, false). The list is split as written, the extension lower-cased.
legacyFileFilter(e, file) ==
    includes(split(OrDefault(e.ALLOWED_EXTENSIONS, DefaultExtensions)),
             slice1(toLowerCase(extname(file.originalname))))

\* The filter's answer for every file under every environment the model
\* uses: the environment does not change while the server runs.
LegacyAccepts ==
    [e \in ApiEnvs |-> [file \in {Photo, Scan, Doc, Movie} |-> legacyFileFilter(e, file)]]

\* filename of the legacy storage: `${Date.now()}-${crypto.randomUUID()}`
\* and the extension as written.
legacyFilename(rid, i, file) == [id |-> <<rid, i>>, ext |-> extname(file.originalname)]

InitLegacy ==
    /\ env \in ApiEnvs
    /\ ApiIdle
    /\ FilterIdle
    /\ DeployIdle
    /\ legacy = [disk |-> {}, nreq |-> 0, last |-> NoResponse]
    /\ fu = Off /\ page = Off /\ store = Off /\ gal = Off /\ post = Off /\ guard = Off
    /\ sess = Off /\ onb = Off /\ vault = Off /\ info = Off

\* POST /upload: upload.array('media', 10), then the handler. multer skips
\* the files the filter refuses and stores the others one after the other;
\* a file over limits.fileSize aborts the request, multer removes what it
\* stored and the error middleware answers 500.
LegacyUpload ==
    /\ legacy.nreq < MaxRequests
    /\ \E files \in LegacyLists :
          LET rid == legacy.nreq + 1
              kept == {i \in 1..Len(files) : LegacyAccepts[env][files[i]]}
              accepted == SelectSeq([i \in 1..Len(files) |->
                                        [originalName |-> files[i].originalname,
                                         filename |-> legacyFilename(rid, i, files[i]),
                                         size |-> files[i].size, kept |-> i \in kept]],
                                    LAMBDA f : f.kept)
          IN  \E cut \in 0..Len(accepted) :
                 /\ \A i \in 1..Len(accepted) :
                       i < cut => FALSE \in TooLarge(env, accepted[i].size)
                 /\ IF cut = 0
                    THEN \A i \in 1..Len(accepted) : FALSE \in TooLarge(env, accepted[i].size)
                    ELSE TRUE \in TooLarge(env, accepted[cut].size)
                 /\ legacy' =
                       IF cut > 0
                       THEN [legacy EXCEPT !.nreq = rid,
                               !.last = [rid |-> rid, files |-> files, status |-> 500,
                                         body |-> [error |-> "Internal server error"]]]
                       ELSE IF Len(accepted) = 0
                       THEN [legacy EXCEPT !.nreq = rid,
                               !.last = [rid |-> rid, files |-> files, status |-> 400,
                                         body |-> [error |-> "No files uploaded"]]]
                       ELSE [legacy EXCEPT !.nreq = rid,
                               !.disk = legacy.disk \cup
                                   {accepted[i].filename : i \in 1..Len(accepted)},
                               !.last = [rid |-> rid, files |-> files, status |-> 200,
                                         body |-> [success |-> TRUE,
                                                   files |-> [i \in 1..Len(accepted) |->
                                                      [originalName |-> accepted[i].originalName,
                                                       filename |-> accepted[i].filename]]]]]
    /\ UNCHANGED <<env, apiVars, filterVars, deployVars, fu, page, store, gal, post, guard,
                   sess, onb, vault, info>>

SpecLegacy == InitLegacy /\ [][LegacyUpload]_vars

-----------------------------------------------------------------------------
(* GET /upload/info (routes/upload.js) *)

InitInfo ==
    /\ env \in InfoEnvs
    /\ ApiIdle
    /\ FilterIdle
    /\ DeployIdle
    /\ info = [response |-> Null]
    /\ fu = Off /\ page = Off /\ store = Off /\ gal = Off /\ post = Off /\ guard = Off
    /\ sess = Off /\ onb = Off /\ vault = Off /\ legacy = Off

\* router.get('/info')
GetInfo ==
    /\ info' = [response |-> [status |-> 200, configuration |-> InfoConfiguration(env)]]
    /\ UNCHANGED <<env, apiVars, filterVars, deployVars, fu, page, store, gal, post, guard,
                   sess, onb, vault, legacy>>

SpecInfo == InitInfo /\ [][GetInfo]_vars

-----------------------------------------------------------------------------
(* C7: the file filter *)

\* The extension of a name as the claim reads it: the text after the last
\* dot, lower-cased; none when the name has no dot after its first character.
C7_Extension(name) ==
    IF \E i \in 2..Len(name) : name[i] = "."
    THEN LET d == CHOOSE i \in 2..Len(name) :
                     name[i] = "." /\ \A j \in (i+1)..Len(name) : name[j] # "."
         IN  IF name = <<".", ".">> THEN <<>>
             ELSE [k \in 1..(Len(name) - d) |-> LowerChar(name[d + k])]
    ELSE <<>>

\* The allowed list as configured: the comma-separated entries of
\* ALLOWED_EXTENSIONS (of the default list when it is unset or empty).
C7_AllowedSet(e) ==
    LET raw == split(OrDefault(e.ALLOWED_EXTENSIONS, DefaultExtensions))
    IN  {toLowerCase(trim(raw[i])) : i \in 1..Len(raw)}

C7_Decided == fVerdict \in {"accepted", "rejected"}

C7_MembershipDecides ==
    (fVerdict = "accepted") <=> (C7_Extension(fFile.originalname) \in C7_AllowedSet(env))

C7_CasingAndMimeIrrelevant ==
    \A n \in Casings(fFile.originalname), m \in FilterMimes :
        fileFilter(env, [originalname |-> n, mimetype |-> m]) = (fVerdict = "accepted")

\* C7 as stated: the filter accepts a file iff the lower-cased extension after
\* the last dot of its name is in the allowed list, whatever the casing of the
\* name and the declared MIME type, and a name without an extension is
\* rejected.
C7_AsStated ==
    C7_Decided =>
        /\ C7_MembershipDecides
        /\ C7_CasingAndMimeIrrelevant
        /\ (C7_Extension(fFile.originalname) = <<>> => fVerdict = "rejected")

-----------------------------------------------------------------------------
(* The upload pipeline: C1 - C6, C8, C9 *)

IsUpload(req) == req.route \in {"single", "multiple"}

\* The last response answers an upload request.
UploadEnded == last.status # 0 /\ IsUpload(last.req)

\* The last response answers an upload request that the rate limiter let
\* through to its route.
UploadAnswered == UploadEnded /\ last.status # 429

\* The files in the upload directory that request rid wrote.
StoredBy(rid) == {n \in DOMAIN disk : disk[n].content[1] = rid}

HasMessage(body) == "message" \in DOMAIN body

C2_Stored ==
    {[name |-> x.url.filename, content |-> x.content] : x \in reported}
    \cup UNION {{[name |-> r.uploaded[i], content |-> <<r.rid, i>>]
                    : i \in 1..Len(r.uploaded)} : r \in inflight}

\* No two stored uploads share a name.
C2_UniqueNames ==
    LET stored == C2_Stored
    IN  Cardinality({x.name : x \in stored}) = Cardinality(stored)

\* Every stored upload is in the directory under its name, with its content.
C2_NeverOverwritten ==
    \A x \in C2_Stored : x.name \in DOMAIN disk /\ disk[x.name].content = x.content

C2_FreshUuid == \A n \in DOMAIN disk : n.uuid = disk[n].content

C3_AsStated ==
    (/\ UploadAnswered
     /\ \E i \in 1..Len(last.req.parts) : ~fileFilter(env, last.req.parts[i]))
    => /\ last.status = 400
       /\ last.json
       /\ HasMessage(last.body)
       /\ \E i \in 1..Len(last.req.parts) :
             /\ ~fileFilter(env, last.req.parts[i])
             /\ last.body.message.arg = fileExtension(last.req.parts[i])

C4_Oversize(req) == \E i \in 1..Len(req.parts) : req.parts[i].size > fileSizeLimit(env)

C4_TooLargeBody ==
    /\ last.status = 413
    /\ last.json
    /\ last.body.error = "File too large"
    /\ HasMessage(last.body)

\* Part i of the request is read from the expected field, within the
\* route's count, and has an allowed extension.
PartAdmitted(req, i) ==
    /\ req.parts[i].fieldname = ExpectedField(req.route)
    /\ i <= (IF req.route = "single" THEN 1 ELSE MaxCount)
    /\ fileFilter(env, req.parts[i])

\* The first file the request is rejected for is rejected for its size.
C4_FirstRejectedForSize(req) ==
    \E i \in 1..Len(req.parts) :
        /\ req.parts[i].size > fileSizeLimit(env)
        /\ PartAdmitted(req, i)
        /\ \A j \in 1..(i - 1) :
              PartAdmitted(req, j) /\ req.parts[j].size <= fileSizeLimit(env)

C5_RejectedLeavesNothing ==
    /\ LET serving == {r.rid : r \in inflight}
           kept == {x.url.filename : x \in reported}
       IN  \A n \in DOMAIN disk : disk[n].content[1] \in serving \/ n \in kept
    /\ (UploadEnded /\ last.status >= 400) => StoredBy(last.rid) = {}

\* A request to /upload/multiple whose first file was accepted and whose
\* second file was not has been rejected, next to files of another request.
C5_Witness ==
    /\ UploadAnswered
    /\ last.status >= 400
    /\ last.req.route = "multiple"
    /\ Len(last.req.parts) = 2
    /\ PartAdmitted(last.req, 1)
    /\ ~fileFilter(env, last.req.parts[2])
    /\ disk # EmptyDisk

\* C6 as stated: every response with a status of 400 or above is a JSON body
\* with a message field.
C6_AsStated ==
    last.status >= 400 => last.json /\ HasMessage(last.body)

C8_NoExpectedFile(req) ==
    \A i \in 1..Len(req.parts) : req.parts[i].fieldname # ExpectedField(req.route)

C8_NoFileError(req) ==
    IF req.route = "single" THEN "No file uploaded" ELSE "No files uploaded"

C9_Multiple == UploadAnswered /\ last.req.route = "multiple"

\* Every 200 response of /upload/multiple lists exactly the files of the
\* request, and totalFiles is their number, between 1 and 10.
C9_SuccessListsRequest ==
    (C9_Multiple /\ last.status = 200)
    => /\ last.body.totalFiles = Len(last.body.files)
       /\ last.body.totalFiles \in 1..10
       /\ Len(last.body.files) = Len(last.req.parts)
       /\ \A i \in 1..Len(last.req.parts) :
             /\ last.body.files[i].originalName = last.req.parts[i].originalname
             /\ last.body.files[i].size = last.req.parts[i].size

C9_UnexpectedFileField ==
    /\ last.status = 400
    /\ last.json
    /\ last.body.message.text = "Unexpected file field"

-----------------------------------------------------------------------------
(* C11, C12, C13: the upload page and the gallery *)

\* C11 as stated: a gallery opened after an upload succeeded, once it has
\* loaded, lists at least one media file (it does not show 'No media files
\* yet').
C11_AsStated ==
    (gal # Off /\ ~gal.loading /\ gal.afterSuccess) => gal.mediaFiles # <<>>

\* Whether each file fails validateFile, under every configuration.
C12_Fails ==
    [config \in UploadConfigs |-> [f \in UiFiles |->
        validateFile(f, config.maxFileSize, config.allowedExtensions) # <<>>]]

\* The dropped files that fail validateFile under the page's configuration.
C12_Failing(files) ==
    SelectSeq(files, LAMBDA f : C12_Fails[page.uploadConfig][f])

\* C12: onDrop is all-or-nothing. When a dropped file fails validateFile the
\* selection stays as it was and the error names every failing file, in the
\* order dropped; when none fails the selection becomes exactly the dropped
\* files and the error is cleared. The earlier uploadResult is cleared in
\* both cases.
C12_OnDropAllOrNothing ==
    [][\A files \in Drops : onDrop(files) =>
          LET failing == C12_Failing(files)
          IN  /\ fu'.uploadResult = Null
              /\ IF failing # <<>>
                 THEN /\ fu'.selectedFiles = fu.selectedFiles
                      /\ fu'.error # Null
                      /\ [i \in 1..Len(fu'.error.files) |-> fu'.error.files[i].name]
                           = [i \in 1..Len(failing) |-> failing[i].name]
                 ELSE /\ fu'.selectedFiles = files
                      /\ fu'.error = Null]_vars

\* A drop with two failing files was refused while files were selected.
C12_Witness ==
    /\ fu # Off
    /\ fu.error # Null
    /\ fu.error.kind = "validation"
    /\ Len(fu.error.files) = 2
    /\ fu.selectedFiles # <<>>

\* C13: handleUpload with files selected. On success the selection is
\* empty, uploadResult holds the response to the files sent and
\* onUploadComplete was called exactly once; on failure the handler leaves
\* the selection alone and sets the error; either way uploading is false and
\* progress 0 when it finishes. With an empty selection it changes nothing.
C13_HandleUpload ==
    /\ [][uploadSucceeds =>
            /\ fu'.selectedFiles = <<>>
            /\ fu'.uploadResult = UploadData(fu.sent)
            /\ fu'.calls = 1
            /\ page'.recentUploads = handleUploadComplete(fu'.uploadResult, page.recentUploads)
            /\ ~fu'.uploading /\ fu'.progress = 0]_vars
    /\ [][uploadFails =>
            /\ fu'.selectedFiles = fu.selectedFiles
            /\ fu'.error # Null
            /\ fu'.calls = 0
            /\ ~fu'.uploading /\ fu'.progress = 0]_vars
    /\ [][(handleUpload /\ fu.selectedFiles = <<>>) => UNCHANGED <<fu, page>>]_vars
    /\ [](fu # Off => /\ (~fu.uploading => fu.progress = 0)
                      /\ fu.calls = (IF fu.outcome = "success" THEN 1 ELSE 0))

\* An upload of two files succeeded.
C13_Witness ==
    /\ fu # Off
    /\ fu.outcome = "success"
    /\ ~fu.uploading
    /\ fu.calls = 1
    /\ fu.uploadResult # Null
    /\ "files" \in DOMAIN fu.uploadResult
    /\ fu.selectedFiles = <<>>

-----------------------------------------------------------------------------
(* C14: CreatePostModal.handleSubmit *)

\* C14: the create-post request is sent only once the media upload request,
\* when there is one, has resolved; when the upload fails no create-post
\* request is sent, the modal stays open and uploading is back to false;
\* handleSubmit calls onPostCreated and onClose only when the create-post
\* request has succeeded, once each.
C14_PostAfterUpload ==
    /\ [](post # Off =>
            /\ \A i \in 1..Len(post.log) :
                  post.log[i] = "post" => (i = 1 \/ post.log[i - 1] = "uploadDone")
            /\ post.calls.onPostCreated = post.calls.created
            /\ post.calls.onClose = post.calls.created
            /\ post.calls.created <= post.calls.sent
            /\ (post.pc = "idle" => ~post.uploading /\ post.uploadProgress = 0))
    /\ [][(post.pc = "upload" /\ post'.pc = "idle") =>
            /\ post'.open
            /\ ~post'.uploading
            /\ post'.calls = post.calls
            /\ post'.log = <<"upload", "uploadFailed">>]_vars
    /\ [][post'.calls.onClose # post.calls.onClose =>
            /\ post.pc = "create"
            /\ post'.log[Len(post'.log)] = "postDone"
            /\ post'.calls.created = post.calls.created + 1]_vars

\* A submission whose upload failed, after one that created a post.
C14_Witness ==
    /\ post # Off
    /\ post.log = <<"upload", "uploadFailed">>
    /\ post.calls.created = 1
    /\ post.calls.sent = 1
    /\ post.open

-----------------------------------------------------------------------------
(* C17: OnboardingPage.handleSubmit *)

C17_LoadingReset ==
    (onb # Off /\ onb.pc = "idle") => ~onb.loading

-----------------------------------------------------------------------------
(* C15, C16: ProtectedRoute and SessionHandler *)

\* C15: a protected page is on screen only with the auth check finished and
\* isAuthenticated true, the admin dashboard only for a user with is_admin;
\* while loading a protected route shows the spinner, and no redirect is ever
\* made while loading.
C15_ProtectedPages ==
    guard # Off =>
      /\ guard.shown \in {"OnboardingPage", "Dashboard", "AdminDashboard", "Access denied"}
            => ~guard.loading /\ guard.isAuthenticated
      /\ guard.shown = "AdminDashboard" => guard.user # Null /\ guard.user.is_admin
      /\ (guard.loading /\ guard.history[guard.idx].path # "/") => guard.shown = "spinner"
      /\ guard.waited

\* The admin dashboard is on screen.
C15_Witness ==
    /\ guard # Off
    /\ guard.shown = "AdminDashboard"
    /\ guard.history[guard.idx].path = "/admin"

\* C16 as stated: the exchange request is sent at most once for the fragment
\* the app was opened with.
C16_AsStated ==
    sess # Off => sess.sent <= 1

-----------------------------------------------------------------------------
(* C18: DocumentVault.handleUpload *)

\* The uploads of the last batch that succeeded.
C18_Succeeded ==
    Cardinality({i \in 1..Len(vault.outcomes) : vault.outcomes[i]})

\* C18 as stated: the number of files the final alert reports as uploaded
\* successfully is the number of files whose upload succeeded.
C18_AsStated ==
    (vault # Off /\ vault.alert # Null /\ "count" \in DOMAIN vault.alert)
        => vault.alert.count = C18_Succeeded

\* The files are sent one at a time in selection order, and the loop goes on
\* after a failure: what was sent is a prefix of the batch, one longer than
\* the outcomes while a request is in flight, and the whole batch at the end.
C18_InOrder ==
    vault # Off =>
      /\ vault.sent = SubSeq(vault.batch, 1, Len(vault.sent))
      /\ Len(vault.outcomes) = Len(vault.sent) - (IF vault.pc = "uploading" THEN 1 ELSE 0)
      /\ vault.pc = "idle" => vault.sent = vault.batch
      /\ vault.completed = C18_Succeeded

-----------------------------------------------------------------------------
(* C19: the legacy upload route *)

\* Whether the lower-cased extension of a file is an entry of the configured
\* list, for every environment and file.
C19_IsAllowed ==
    [e \in ApiEnvs |-> [f \in {Photo, Scan, Doc, Movie} |->
        includes(split(OrDefault(e.ALLOWED_EXTENSIONS, DefaultExtensions)),
                 toLowerCase(slice1(extname(f.originalname))))]]

\* The files of the last request that are allowed.
C19_Allowed ==
    SelectSeq(legacy.last.files, LAMBDA f : C19_IsAllowed[env][f])

\* What the last request left in the upload directory.
C19_Stored == {n \in legacy.disk : n.id[1] = legacy.last.rid}

\* C19: a success response lists exactly the allowed files of the request,
\* in order, and exactly those are stored; the answer is 400 'No files
\* uploaded' if and only if no file of the request is allowed; a request
\* that fails stores nothing, and it fails only over an allowed file.
C19_SkipsDisallowed ==
    (legacy # Off /\ legacy.last # NoResponse) =>
      LET allowed == C19_Allowed
          body == legacy.last.body
      IN  /\ legacy.last.status = 200 =>
                /\ [i \in 1..Len(body.files) |-> body.files[i].originalName]
                     = [i \in 1..Len(allowed) |-> allowed[i].originalname]
                /\ C19_Stored = {body.files[i].filename : i \in 1..Len(body.files)}
                /\ Cardinality(C19_Stored) = Len(allowed)
          /\ (legacy.last.status = 400 /\ body.error = "No files uploaded")
                <=> allowed = <<>>
          /\ legacy.last.status # 200 => C19_Stored = {}
          /\ legacy.last.status \in {200, 400, 500}
          /\ legacy.last.status = 500 =>
                \E i \in 1..Len(allowed) : TRUE \in TooLarge(env, allowed[i].size)

\* A request of an allowed and a disallowed file was answered with the
\* allowed file alone.
C19_Witness ==
    /\ legacy # Off
    /\ legacy.last # NoResponse
    /\ legacy.last.status = 200
    /\ Len(legacy.last.files) = 2
    /\ Len(legacy.last.body.files) = 1
    /\ legacy.last.files[1] = Doc

-----------------------------------------------------------------------------
(* C20: the configuration GET /upload/info reports *)

\* The elements of a list.
C20_Entries(list) == {list[i] : i \in 1..Len(list)}

\* C20 as stated: the reported maxFileSize is the size limit of the upload
\* middleware and the reported allowedExtensions are the extensions its
\* file filter accepts.
C20_AsStated ==
    (info # Off /\ info.response # Null) =>
      /\ info.response.configuration.maxFileSize = fileSizeLimit(env)
      /\ C20_Entries(info.response.configuration.allowedExtensions)
           = C20_Entries(allowedExtensions(env))

\* The reported maxFileSize is the size limit of the upload middleware.
C20_SizeReported ==
    (info # Off /\ info.response # Null) =>
      info.response.configuration.maxFileSize = fileSizeLimit(env)

=============================================================================
